---- MODULE Spec2Model ----
(***************************************************************************)
(* TestORE: proof-of-work submission verification and the miner / global   *)
(* round state machine of the on-chain program (src/lib.rs).               *)
(*                                                                         *)
(* Every instruction of the program is one atomic action: the runtime      *)
(* executes a transaction's instruction against write-locked accounts and  *)
(* either commits all of its writes or, on an error or a panic, none.      *)
(***************************************************************************)
EXTENDS Integers, Sequences, FiniteSets, TLC

VARIABLES
    miners,        \* identity -> Miner account, or NoAccount
    global_round,  \* the GlobalRound account, or NoAccount
    clock,         \* the Clock sysvar: [unix_timestamp, slot]
    ticks,         \* slots elapsed since the initial state
    rotations,     \* successful rotations since the round was initialised
    last,          \* the last instruction executed, its inputs and outcome
    history,       \* what has been accepted so far (for the properties only)
    probe          \* input and output of a function called in isolation

vars == <<miners, global_round, clock, ticks, rotations, last, history, probe>>

---------------------------------------------------------------------------
(* Bounds of the model *)

\* Identities are the public keys 1..NumIdentities.
NumIdentities == 2
\* Nonces a submitter may try are 0..MaxNonce.
MaxNonce == 3
\* The clock advances at most MaxTicks slots after the initial state.
MaxTicks == 1
\* The round is rotated at most MaxRotations times in all.
MaxRotations == 2

(* Program constants *)

HashLen == 32
STREAK_TO_COMPLETE == 10
INITIAL_MIN_DIFFICULTY == 8
MAX_MIN_DIFFICULTY == 16
HASHES_FOR_DIFFICULTY_RAISE == 1000000
MIN_SUBMISSION_INTERVAL == 1
U8_MAX == 255

Identities == 1..NumIdentities
Nonces == 0..MaxNonce
\* An address holding no account; the failure of a fallible operation.
NoAccount == [absent |-> TRUE]
None == [none |-> TRUE]
Overflow == <<>>

---------------------------------------------------------------------------
(* Integer helpers of the Rust standard library *)

Pow2(n) == 2 ^ n

\* u8::leading_zeros
RECURSIVE leading_zeros(_)
leading_zeros(byte) ==
    IF byte = 0 THEN 8
    ELSE IF byte >= 128 THEN 0
    ELSE 1 + leading_zeros(2 * byte)

\* u64::to_le_bytes / i64::to_le_bytes of a value 0 <= n < 2^31, as a byte
\* sequence: the bytes above the fourth are zero.
to_le_bytes(n, width) ==
    [i \in 1..width |-> IF i <= 4 THEN (n \div Pow2(8 * (i - 1))) % 256 ELSE 0]

\* u8::saturating_add
saturating_add(x, y, max) == IF x + y > max THEN max ELSE x + y

Min(a, b) == IF a < b THEN a ELSE b

(* u32 and u64 counters.  The model checker's integers are narrower than   *)
(* the program's, so a counter is kept at its full width as little-endian  *)
(* 16-bit limbs (two for u32, four for u64).                               *)

Limb == 2 ^ 16

\* The counter of `width` limbs holding 0 <= n < 2^31.
Wide(n, width) ==
    [i \in 1..width |-> IF i = 1 THEN n % Limb
                        ELSE IF i = 2 THEN n \div Limb
                        ELSE 0]
U32(n) == Wide(n, 2)
U64(n) == Wide(n, 4)

\* Whether a counter is below 2^31, and then its value.
Fits(x) == x[2] < 32768 /\ \A i \in 3..Len(x) : x[i] = 0
Val(x) == x[1] + Limb * x[2]

\* uN::checked_add(1): Overflow (Rust's None) when the counter is at its maximum.
RECURSIVE carry_from(_, _)
carry_from(x, i) ==
    IF i > Len(x) THEN Overflow
    ELSE IF x[i] = Limb - 1
         THEN carry_from([x EXCEPT ![i] = 0], i + 1)
         ELSE [x EXCEPT ![i] = x[i] + 1]
\* An increment that wraps around to 0 at the maximum.
wrapping_add_1(x) ==
    IF carry_from(x, 1) = Overflow THEN [i \in 1..Len(x) |-> 0]
    ELSE carry_from(x, 1)

checked_add_1(x) == carry_from(x, 1)

\* u32::MAX and u64::MAX.
MaxWide(width) == [i \in 1..width |-> Limb - 1]
U32_MAX == MaxWide(2)
U64_MAX == MaxWide(4)

\* x > n and x >= n for a counter x and 0 <= n < 2^31.
WideGt(x, n) == IF Fits(x) THEN Val(x) > n ELSE TRUE
WideGe(x, n) == IF Fits(x) THEN Val(x) >= n ELSE TRUE

---------------------------------------------------------------------------
(* Keccak256.  The digest of the real primitive cannot be computed here;   *)
(* it is replaced by a deterministic function of the whole byte string     *)
(* that yields a 32-byte digest.  The digests it produces have the         *)
(* leading-zero counts of LeadingZeroClasses, and for a fixed prefix the   *)
(* first byte appended selects the class bijectively, so a submitter who   *)
(* searches nonces finds a digest of every class, as a miner grinding the  *)
(* real hash does.                                                         *)

LeadingZeroClasses == <<0, 7, 8, 16>>

\* The sponge state after absorbing msg from byte i on, one 8-byte lane at a
\* time: each byte takes the state acc to acc * 7 + byte + 1, reduced modulo
\* the number of classes after each lane.  Every message the program hashes
\* is a whole number of lanes (32 + 32 + 8 and 8 + 8 bytes).
RECURSIVE AbsorbLanes(_, _, _)
AbsorbLanes(msg, i, acc) ==
    IF i > Len(msg) THEN acc
    ELSE AbsorbLanes(msg, i + 8,
            ( acc * 5764801
            + (msg[i]     + 1) * 823543 + (msg[i + 1] + 1) * 117649
            + (msg[i + 2] + 1) * 16807  + (msg[i + 3] + 1) * 2401
            + (msg[i + 4] + 1) * 343    + (msg[i + 5] + 1) * 49
            + (msg[i + 6] + 1) * 7      + (msg[i + 7] + 1) )
            % Len(LeadingZeroClasses))

Absorb(msg) == AbsorbLanes(msg, 1, 0)

\* A 32-byte digest with exactly z leading zero bits (all zero for z = 256).
DigestWithZeros(z) ==
    [i \in 1..HashLen |->
        IF i <= z \div 8 THEN 0
        ELSE IF i = (z \div 8) + 1 THEN Pow2(8 - (z % 8)) - 1
        ELSE 255]

Keccak256(msg) == DigestWithZeros(LeadingZeroClasses[Absorb(msg) + 1])

\* Pubkey::as_ref: a public key is the 256-bit number its 32 bytes spell.
as_ref(pubkey) == to_le_bytes(pubkey, 32)

---------------------------------------------------------------------------
(* Utility functions of the program (src/lib.rs) *)

hash_proof(authority, challenge, nonce) ==
    Keccak256(as_ref(authority) \o challenge \o to_le_bytes(nonce, 8))

\* The loop of check_difficulty from byte index i (0-based) on.
RECURSIVE check_difficulty_from(_, _, _)
check_difficulty_from(hash, required_zeros, i) ==
    IF i >= Len(hash) THEN TRUE
    ELSE LET lz      == leading_zeros(hash[i + 1])
             bit_pos == i * 8
         IN  IF bit_pos + lz < required_zeros THEN FALSE
             ELSE IF lz < 8 THEN bit_pos + lz >= required_zeros
             ELSE check_difficulty_from(hash, required_zeros, i + 1)

check_difficulty(hash, difficulty) == check_difficulty_from(hash, difficulty, 0)

generate_challenge(clk) ==
    Keccak256(to_le_bytes(clk.unix_timestamp, 8) \o to_le_bytes(clk.slot, 8))

---------------------------------------------------------------------------
(* Accounts *)

\* A new Miner account whose timestamp is left at zero.
NewMiner_zero_timestamp(authority, now) ==
    [ authority        |-> authority,
      total_hashes     |-> U64(0),
      rounds_completed |-> U32(0),
      last_hash_at     |-> 0,
      current_streak   |-> U32(0),
      best_difficulty  |-> 0 ]

\* initialize_miner: the Miner account of a new authority.
NewMiner(authority, now) ==
    [ authority        |-> authority,
      total_hashes     |-> U64(0),
      rounds_completed |-> U32(0),
      last_hash_at     |-> now,
      current_streak   |-> U32(0),
      best_difficulty  |-> 0 ]

\* initialize_global_round: the GlobalRound account.
NewGlobalRound(admin, clk) ==
    [ current_challenge      |-> generate_challenge(clk),
      round_number           |-> U64(1),
      started_at             |-> clk.unix_timestamp,
      min_difficulty         |-> INITIAL_MIN_DIFFICULTY,
      total_hashes_submitted |-> U64(0),
      total_rounds_completed |-> U64(0),
      admin                  |-> admin ]

---------------------------------------------------------------------------
(* submit_proof *)

Ok == "Ok"
Panic == "Panic"
Rejections == {"InsufficientDifficulty", "TooManySubmissions", "DifficultyTooLow"}

\* The checks with a rate limit that lets the same second through.
proof_checks_same_second(miner, round, now, nonce, difficulty) ==
    LET hash == hash_proof(miner.authority, round.current_challenge, nonce)
    IN  IF ~check_difficulty(hash, difficulty)
            THEN "InsufficientDifficulty"
        ELSE IF ~(now - miner.last_hash_at >= 0)
            THEN "TooManySubmissions"
        ELSE IF ~(difficulty >= round.min_difficulty)
            THEN "DifficultyTooLow"
        ELSE Ok

\* The checks with the rate limit tested before the hash.
proof_checks_rate_first(miner, round, now, nonce, difficulty) ==
    LET hash == hash_proof(miner.authority, round.current_challenge, nonce)
    IN  IF ~(now - miner.last_hash_at >= MIN_SUBMISSION_INTERVAL)
            THEN "TooManySubmissions"
        ELSE IF ~check_difficulty(hash, difficulty)
            THEN "InsufficientDifficulty"
        ELSE IF ~(difficulty >= round.min_difficulty)
            THEN "DifficultyTooLow"
        ELSE Ok

\* The three require! checks, in the order of the code: the reason of the
\* first one that fails, or Ok.
proof_checks(miner, round, now, nonce, difficulty) ==
    LET hash == hash_proof(miner.authority, round.current_challenge, nonce)
    IN  IF ~check_difficulty(hash, difficulty)
            THEN "InsufficientDifficulty"
        ELSE IF ~(now - miner.last_hash_at >= MIN_SUBMISSION_INTERVAL)
            THEN "TooManySubmissions"
        ELSE IF ~(difficulty >= round.min_difficulty)
            THEN "DifficultyTooLow"
        ELSE Ok

\* The miner's stats with the comparison of the difficulty reversed.
miner_stats_lowest_difficulty(miner, now, difficulty) ==
    LET th == checked_add_1(miner.total_hashes)
        cs == checked_add_1(miner.current_streak)
    IN  IF th = Overflow \/ cs = Overflow THEN None
        ELSE [miner EXCEPT
                !.total_hashes    = th,
                !.last_hash_at    = now,
                !.current_streak  = cs,
                !.best_difficulty = IF difficulty < miner.best_difficulty
                                    THEN difficulty ELSE @]

\* The miner's stats updated without the timestamp.
miner_stats_without_timestamp(miner, now, difficulty) ==
    [miner EXCEPT
        !.total_hashes    = checked_add_1(miner.total_hashes),
        !.current_streak  = checked_add_1(miner.current_streak),
        !.best_difficulty = IF difficulty > miner.best_difficulty
                            THEN difficulty ELSE @]

\* "Update miner stats" up to the streak check: None if a checked_add fails.
miner_stats(miner, now, difficulty) ==
    LET th == checked_add_1(miner.total_hashes)
        st == checked_add_1(miner.current_streak)
    IN  IF th = Overflow \/ st = Overflow THEN None
        ELSE [miner EXCEPT
                !.total_hashes    = th,
                !.last_hash_at    = now,
                !.current_streak  = st,
                !.best_difficulty = IF difficulty > miner.best_difficulty
                                    THEN difficulty ELSE @]

\* The streak check with > for >=.
round_completion_off_by_one(miner, round) ==
    IF WideGt(miner.current_streak, STREAK_TO_COMPLETE)
    THEN [ miner |-> [miner EXCEPT
                        !.rounds_completed = checked_add_1(miner.rounds_completed),
                        !.current_streak = U32(0)],
           round |-> [round EXCEPT
                        !.total_rounds_completed =
                            checked_add_1(round.total_rounds_completed)] ]
    ELSE [miner |-> miner, round |-> round]

\* The streak check that forgets the global counter.
round_completion_miner_only(miner, round) ==
    IF WideGe(miner.current_streak, STREAK_TO_COMPLETE)
    THEN [ miner |-> [miner EXCEPT
                        !.rounds_completed = checked_add_1(miner.rounds_completed),
                        !.current_streak = U32(0)],
           round |-> round ]
    ELSE [miner |-> miner, round |-> round]

\* The streak check that counts the round and lets the streak run on.
round_completion_keeps_streak(miner, round) ==
    IF WideGe(miner.current_streak, STREAK_TO_COMPLETE)
    THEN [ miner |-> [miner EXCEPT
                        !.rounds_completed = checked_add_1(miner.rounds_completed)],
           round |-> [round EXCEPT
                        !.total_rounds_completed =
                            checked_add_1(round.total_rounds_completed)] ]
    ELSE [miner |-> miner, round |-> round]

\* The streak check that counts the round in the global counter only.
round_completion_round_only(miner, round) ==
    IF WideGe(miner.current_streak, STREAK_TO_COMPLETE)
    THEN [ miner |-> [miner EXCEPT !.current_streak = U32(0)],
           round |-> [round EXCEPT
                        !.total_rounds_completed =
                            checked_add_1(round.total_rounds_completed)] ]
    ELSE [miner |-> miner, round |-> round]

\* "Check if round completed": the two accounts after the streak check.
round_completion(miner, round) ==
    IF WideGe(miner.current_streak, STREAK_TO_COMPLETE)
    THEN LET rc  == checked_add_1(miner.rounds_completed)
             trc == checked_add_1(round.total_rounds_completed)
         IN  IF rc = Overflow \/ trc = Overflow THEN None
             ELSE [ miner |-> [miner EXCEPT !.rounds_completed = rc,
                                            !.current_streak = U32(0)],
                    round |-> [round EXCEPT !.total_rounds_completed = trc] ]
    ELSE [miner |-> miner, round |-> round]

\* The global stats counted twice.
global_stats_twice(round) ==
    LET once == checked_add_1(round.total_hashes_submitted)
        ths  == IF once = Overflow THEN Overflow ELSE checked_add_1(once)
    IN  IF ths = Overflow THEN None
        ELSE [round EXCEPT !.total_hashes_submitted = ths]

\* "Update global stats".
global_stats(round) ==
    LET ths == checked_add_1(round.total_hashes_submitted)
    IN  IF ths = Overflow THEN None
        ELSE [round EXCEPT !.total_hashes_submitted = ths]

\* submit_proof as it would be with the timestamp written before the checks.
submit_proof_handler_stamp_first(miner, round, now, nonce, difficulty) ==
    LET stamped == [miner EXCEPT !.last_hash_at = now]
        reason  == proof_checks(miner, round, now, nonce, difficulty)
    IN  IF reason # Ok
        THEN [result |-> reason, miner |-> stamped, round |-> round]
        ELSE LET c == round_completion(miner_stats(miner, now, difficulty), round)
             IN  [result |-> Ok, miner |-> c.miner, round |-> global_stats(c.round)]

\* The body of submit_proof on the two accounts: its outcome and the
\* accounts as the instruction leaves them.  An unwrap() of a failed
\* checked_add panics, which aborts the transaction: nothing is written.
submit_proof_handler(miner, round, now, nonce, difficulty) ==
    LET unchanged == [miner |-> miner, round |-> round]
        reason    == proof_checks(miner, round, now, nonce, difficulty)
    IN  IF reason # Ok THEN [result |-> reason] @@ unchanged
        ELSE LET m1 == miner_stats(miner, now, difficulty)
             IN  IF m1 = None THEN [result |-> Panic] @@ unchanged
                 ELSE LET c == round_completion(m1, round)
                      IN  IF c = None THEN [result |-> Panic] @@ unchanged
                          ELSE LET g == global_stats(c.round)
                               IN  IF g = None
                                   THEN [result |-> Panic] @@ unchanged
                                   ELSE [result |-> Ok, miner |-> c.miner,
                                         round |-> g]

---------------------------------------------------------------------------
(* rotate_round *)

\* A difficulty adjustment that also eases when the round was quiet.
adjust_difficulty_both_ways(round) ==
    IF WideGt(round.total_hashes_submitted, HASHES_FOR_DIFFICULTY_RAISE)
    THEN Min(saturating_add(round.min_difficulty, 1, U8_MAX), MAX_MIN_DIFFICULTY)
    ELSE IF round.min_difficulty > 0 THEN round.min_difficulty - 1 ELSE 0

\* A difficulty adjustment that raises at the threshold itself.
adjust_difficulty_at_threshold(round) ==
    IF WideGe(round.total_hashes_submitted, HASHES_FOR_DIFFICULTY_RAISE)
    THEN Min(saturating_add(round.min_difficulty, 1, U8_MAX), MAX_MIN_DIFFICULTY)
    ELSE round.min_difficulty

\* "Dynamic difficulty adjustment".
adjust_difficulty(round) ==
    IF WideGt(round.total_hashes_submitted, HASHES_FOR_DIFFICULTY_RAISE)
    THEN Min(saturating_add(round.min_difficulty, 1, U8_MAX), MAX_MIN_DIFFICULTY)
    ELSE round.min_difficulty

\* A rotation that resets every counter of the round record.
rotate_round_handler_reset_all(round, clk) ==
    LET rn == checked_add_1(round.round_number)
    IN  IF rn = Overflow THEN None
        ELSE [round EXCEPT
                !.current_challenge      = generate_challenge(clk),
                !.round_number           = rn,
                !.started_at             = clk.unix_timestamp,
                !.min_difficulty         = adjust_difficulty(round),
                !.total_hashes_submitted = U64(0),
                !.total_rounds_completed = U64(0)]

\* A rotation that keeps the challenge.
rotate_round_handler_same_challenge(round, clk) ==
    LET rn == checked_add_1(round.round_number)
    IN  IF rn = Overflow THEN None
        ELSE [round EXCEPT
                !.round_number           = rn,
                !.started_at             = clk.unix_timestamp,
                !.min_difficulty         = adjust_difficulty(round),
                !.total_hashes_submitted = U64(0)]

\* A rotation that keeps the round number.
rotate_round_handler_same_number(round, clk) ==
    [round EXCEPT
        !.current_challenge      = generate_challenge(clk),
        !.started_at             = clk.unix_timestamp,
        !.min_difficulty         = adjust_difficulty(round),
        !.total_hashes_submitted = U64(0)]

\* The body of rotate_round: None if round_number overflows (a panic).
rotate_round_handler(round, clk) ==
    LET rn == checked_add_1(round.round_number)
    IN  IF rn = Overflow THEN None
        ELSE [round EXCEPT
                !.current_challenge      = generate_challenge(clk),
                !.round_number           = rn,
                !.started_at             = clk.unix_timestamp,
                !.min_difficulty         = adjust_difficulty(round),
                !.total_hashes_submitted = U64(0)]

---------------------------------------------------------------------------
(* Initial states *)

NoOp == [op |-> "none", who |-> 0, difficulty |-> 0, result |-> Ok]
NoProbe == [hash |-> <<>>, called |-> FALSE, out |-> <<>>]

\* Nothing deployed yet: no account exists.
InitCold ==
    /\ miners = [a \in Identities |-> NoAccount]
    /\ global_round = NoAccount
    /\ clock = [unix_timestamp |-> 0, slot |-> 0]
    /\ rotations = 0
    /\ history = [accepted_in_round |-> 0,
                  max_accepted      |-> [a \in Identities |-> 0]]

(* A deployment that has been running.  The round was initialised at time  *)
(* 0 with admin 1 and identity 1 was created at time 0; identity 1 has had *)
(* one proof accepted every second since, always claiming the initial      *)
(* minimum.  The admin rotated once, after STREAK_TO_COMPLETE - 1 proofs   *)
(* (too few to raise the difficulty), and the current round has counted    *)
(* HASHES_FOR_DIFFICULTY_RAISE proofs.  Two slots per second.              *)
InitWarm ==
    LET rotated == STREAK_TO_COMPLETE - 1
        n       == rotated + HASHES_FOR_DIFFICULTY_RAISE
    IN  /\ miners = [a \in Identities |->
            IF a = 1
            THEN [ authority        |-> 1,
                   total_hashes     |-> U64(n),
                   rounds_completed |-> U32(n \div STREAK_TO_COMPLETE),
                   last_hash_at     |-> n,
                   current_streak   |-> U32(n % STREAK_TO_COMPLETE),
                   best_difficulty  |-> INITIAL_MIN_DIFFICULTY ]
            ELSE NoAccount]
        /\ global_round =
            [ current_challenge      |->
                  generate_challenge([unix_timestamp |-> rotated,
                                      slot |-> 2 * rotated]),
              round_number           |-> U64(2),
              started_at             |-> rotated,
              min_difficulty         |-> INITIAL_MIN_DIFFICULTY,
              total_hashes_submitted |-> U64(HASHES_FOR_DIFFICULTY_RAISE),
              total_rounds_completed |-> U64(n \div STREAK_TO_COMPLETE),
              admin                  |-> 1 ]
        /\ clock = [unix_timestamp |-> n, slot |-> 2 * n]
        /\ rotations = 1
        /\ history = [accepted_in_round |-> HASHES_FOR_DIFFICULTY_RAISE,
                      max_accepted      |-> [a \in Identities |->
                            IF a = 1 THEN INITIAL_MIN_DIFFICULTY ELSE 0]]

Init ==
    /\ InitCold \/ InitWarm
    /\ ticks = 0
    /\ last = NoOp
    /\ probe = NoProbe

---------------------------------------------------------------------------
(* Instructions *)

Did(op, who, difficulty, result) ==
    [op |-> op, who |-> who, difficulty |-> difficulty, result |-> result]

\* The history after instruction l: the number of proofs accepted since
\* the round was initialised or last rotated, and for each identity the
\* highest difficulty claimed by an accepted proof since its record was
\* created.
Observed(h, l) ==
    IF l.result # Ok THEN h
    ELSE CASE l.op = "initialize_miner" ->
                [h EXCEPT !.max_accepted[l.who] = 0]
           [] l.op \in {"initialize_global_round", "rotate_round"} ->
                [h EXCEPT !.accepted_in_round = 0]
           [] l.op = "submit_proof" ->
                [h EXCEPT !.accepted_in_round = @ + 1,
                          !.max_accepted[l.who] =
                              IF l.difficulty > @ THEN l.difficulty ELSE @]
           [] OTHER -> h

\* The difficulties a submitter claims: 0 and those around the round's
\* minimum.
ClaimedDifficulties(round) ==
    IF round = NoAccount THEN {}
    ELSE {0, round.min_difficulty - 1, round.min_difficulty,
          round.min_difficulty + 1}

\* initialize_miner with init_if_needed for init: an existing record is
\* written again.
initialize_miner_init_if_needed(authority) ==
    /\ miners' = [miners EXCEPT
            ![authority] = NewMiner(authority, clock.unix_timestamp)]
    /\ last' = Did("initialize_miner", authority, 0, Ok)
    /\ history' = Observed(history, last')
    /\ UNCHANGED <<global_round, clock, ticks, rotations, probe>>

\* `init` of an account that exists fails in the system program.
initialize_miner(authority) ==
    /\ IF miners[authority] = NoAccount
       THEN /\ miners' = [miners EXCEPT
                    ![authority] = NewMiner(authority, clock.unix_timestamp)]
            /\ last' = Did("initialize_miner", authority, 0, Ok)
       ELSE /\ miners' = miners
            /\ last' = Did("initialize_miner", authority, 0, "AlreadyInUse")
    /\ history' = Observed(history, last')
    /\ UNCHANGED <<global_round, clock, ticks, rotations, probe>>

initialize_global_round(admin) ==
    /\ IF global_round = NoAccount
       THEN /\ global_round' = NewGlobalRound(admin, clock)
            /\ last' = Did("initialize_global_round", admin, 0, Ok)
       ELSE /\ global_round' = global_round
            /\ last' = Did("initialize_global_round", admin, 0, "AlreadyInUse")
    /\ history' = Observed(history, last')
    /\ UNCHANGED <<miners, clock, ticks, rotations, probe>>

\* submit_proof without the seeds and has_one = authority constraints: the
\* signer passes any Miner account.
submit_proof_any_miner(authority, nonce, difficulty) ==
    /\ global_round # NoAccount
    /\ \E m \in Identities :
         /\ miners[m] # NoAccount
         /\ LET r == submit_proof_handler(miners[m], global_round,
                                          clock.unix_timestamp, nonce, difficulty)
            IN  /\ miners' = [miners EXCEPT ![m] = r.miner]
                /\ global_round' = r.round
                /\ last' = Did("submit_proof", authority, difficulty, r.result)
    /\ history' = Observed(history, last')
    /\ UNCHANGED <<clock, ticks, rotations, probe>>

\* The signer's own Miner account (seeds, has_one = authority) and the
\* GlobalRound account must exist for the instruction to run.
submit_proof(authority, nonce, difficulty) ==
    /\ miners[authority] # NoAccount
    /\ global_round # NoAccount
    /\ LET r == submit_proof_handler(miners[authority], global_round,
                                     clock.unix_timestamp, nonce, difficulty)
       IN  /\ miners' = [miners EXCEPT ![authority] = r.miner]
           /\ global_round' = r.round
           /\ last' = Did("submit_proof", authority, difficulty, r.result)
    /\ history' = Observed(history, last')
    /\ UNCHANGED <<clock, ticks, rotations, probe>>

\* A rotate_round that also ends every miner's streak.
rotate_round_resets_streaks(signer) ==
    /\ global_round # NoAccount
    /\ rotations < MaxRotations
    /\ IF signer # global_round.admin
       THEN /\ global_round' = global_round
            /\ rotations' = rotations
            /\ miners' = miners
            /\ last' = Did("rotate_round", signer, 0, "ConstraintHasOne")
       ELSE LET r == rotate_round_handler(global_round, clock)
            IN  IF r = None
                THEN /\ global_round' = global_round
                     /\ rotations' = rotations
                     /\ miners' = miners
                     /\ last' = Did("rotate_round", signer, 0, Panic)
                ELSE /\ global_round' = r
                     /\ rotations' = rotations + 1
                     /\ miners' = [a \in Identities |->
                            IF miners[a] = NoAccount THEN NoAccount
                            ELSE [miners[a] EXCEPT !.current_streak = U32(0)]]
                     /\ last' = Did("rotate_round", signer, 0, Ok)
    /\ history' = Observed(history, last')
    /\ UNCHANGED <<clock, ticks, probe>>

\* rotate_round without the has_one = admin constraint.
rotate_round_any_signer(signer) ==
    /\ global_round # NoAccount
    /\ rotations < MaxRotations
    /\ LET r == rotate_round_handler(global_round, clock)
       IN  IF r = None
           THEN /\ global_round' = global_round
                /\ rotations' = rotations
                /\ last' = Did("rotate_round", signer, 0, Panic)
           ELSE /\ global_round' = r
                /\ rotations' = rotations + 1
                /\ last' = Did("rotate_round", signer, 0, Ok)
    /\ history' = Observed(history, last')
    /\ UNCHANGED <<miners, clock, ticks, probe>>

\* has_one = admin: a signer other than global_round.admin is refused by the
\* account constraint before the body runs.
rotate_round(signer) ==
    /\ global_round # NoAccount
    /\ rotations < MaxRotations
    /\ IF signer # global_round.admin
       THEN /\ global_round' = global_round
            /\ rotations' = rotations
            /\ last' = Did("rotate_round", signer, 0, "ConstraintHasOne")
       ELSE LET r == rotate_round_handler(global_round, clock)
            IN  IF r = None
                THEN /\ global_round' = global_round
                     /\ rotations' = rotations
                     /\ last' = Did("rotate_round", signer, 0, Panic)
                ELSE /\ global_round' = r
                     /\ rotations' = rotations + 1
                     /\ last' = Did("rotate_round", signer, 0, Ok)
    /\ history' = Observed(history, last')
    /\ UNCHANGED <<miners, clock, ticks, probe>>

\* The cluster produces the next slot; the timestamp stays within the same
\* second or moves to the next.
advance_clock ==
    /\ ticks < MaxTicks
    /\ \E dt \in {0, 1} :
         clock' = [unix_timestamp |-> clock.unix_timestamp + dt,
                   slot |-> clock.slot + 1]
    /\ ticks' = ticks + 1
    /\ last' = Did("advance_clock", 0, 0, Ok)
    /\ history' = Observed(history, last')
    /\ UNCHANGED <<miners, global_round, rotations, probe>>

Next ==
    \/ \E a \in Identities : initialize_miner(a)
    \/ \E a \in Identities : initialize_global_round(a)
    \/ \E a \in Identities, n \in Nonces :
         \E d \in ClaimedDifficulties(global_round) : submit_proof(a, n, d)
    \/ \E a \in Identities : rotate_round(a)
    \/ advance_clock

Spec == Init /\ [][Next]_vars

---------------------------------------------------------------------------
(* The program with a counter of the round record at its maximum *)

\* The counters of the round record that InitSaturated puts at u64::MAX.
RoundCounters ==
    {"total_hashes_submitted", "total_rounds_completed", "round_number"}

(* A deployment in which one counter of the round record has reached       *)
(* u64::MAX.  The round was initialised at time 0 with admin 1; identity 1 *)
(* was created at time 0 and has had a proof accepted every second,        *)
(* 2 * STREAK_TO_COMPLETE - 1 in all, claiming the initial minimum.        *)
(* total_hashes_submitted and total_rounds_completed also count the        *)
(* proofs of the identities outside the model; round_number counts the     *)
(* rotations the admin made before the first proof.  rotations and history *)
(* count from this state on.                                               *)
InitSaturated ==
    LET n == 2 * STREAK_TO_COMPLETE - 1
    IN  \E saturated \in RoundCounters :
        /\ miners = [a \in Identities |->
            IF a = 1
            THEN [ authority        |-> 1,
                   total_hashes     |-> U64(n),
                   rounds_completed |-> U32(n \div STREAK_TO_COMPLETE),
                   last_hash_at     |-> n,
                   current_streak   |-> U32(n % STREAK_TO_COMPLETE),
                   best_difficulty  |-> INITIAL_MIN_DIFFICULTY ]
            ELSE NoAccount]
        /\ global_round =
            [ current_challenge      |->
                  generate_challenge([unix_timestamp |-> 0, slot |-> 0]),
              round_number           |->
                  IF saturated = "round_number" THEN U64_MAX ELSE U64(1),
              started_at             |-> 0,
              min_difficulty         |-> INITIAL_MIN_DIFFICULTY,
              total_hashes_submitted |->
                  IF saturated = "total_hashes_submitted"
                  THEN U64_MAX ELSE U64(n),
              total_rounds_completed |->
                  IF saturated = "total_rounds_completed"
                  THEN U64_MAX ELSE U64(n \div STREAK_TO_COMPLETE),
              admin                  |-> 1 ]
        /\ clock = [unix_timestamp |-> n, slot |-> 2 * n]
        /\ rotations = 0
        /\ history = [accepted_in_round |-> 0,
                      max_accepted      |-> [a \in Identities |->
                            IF a = 1 THEN INITIAL_MIN_DIFFICULTY ELSE 0]]
        /\ ticks = 0
        /\ last = NoOp
        /\ probe = NoProbe

SpecSaturated == InitSaturated /\ [][Next]_vars

---------------------------------------------------------------------------
(* check_difficulty called in isolation, on every threshold of u8 at once *)

\* A 32-byte hash with exactly z leading zero bits, z < 256, whose bits
\* after the first set bit are all `fill` (0 or 1).
HashWithZeros(z, fill) ==
    [i \in 1..HashLen |->
        IF i <= z \div 8 THEN 0
        ELSE IF i = (z \div 8) + 1
             THEN IF fill = 1 THEN Pow2(8 - (z % 8)) - 1 ELSE Pow2(7 - (z % 8))
        ELSE IF fill = 1 THEN 255 ELSE 0]

ProbeHashes ==
    {HashWithZeros(z, fill) : z \in 0..(8 * HashLen - 1), fill \in {0, 1}}
        \cup {[i \in 1..HashLen |-> 0]}

Thresholds == 0..U8_MAX

InitProbe ==
    /\ InitCold
    /\ ticks = 0
    /\ last = NoOp
    /\ \E h \in ProbeHashes :
         probe = [hash |-> h, called |-> FALSE, out |-> [t \in Thresholds |-> FALSE]]

call_check_difficulty ==
    /\ ~probe.called
    /\ probe' = [probe EXCEPT
            !.called = TRUE,
            !.out = [t \in Thresholds |-> check_difficulty(probe.hash, t)]]
    /\ UNCHANGED <<miners, global_round, clock, ticks, rotations, last, history>>

NextProbe == call_check_difficulty

SpecProbe == InitProbe /\ [][NextProbe]_vars

\* ---------------------------------------------------------------------
\* calculate_difficulty, the leading-zero-bit count of the tests, called
\* in isolation on the same hashes.
\* ---------------------------------------------------------------------

\* The loop of calculate_difficulty from byte i (0-based) on, with the u8
\* accumulator difficulty: the byte's leading zeros are added, saturating,
\* while the accumulator is at most 248, and the loop stops after the first
\* byte with fewer than 8 of them.
RECURSIVE calculate_difficulty_from(_, _, _)
calculate_difficulty_from(hash, difficulty, i) ==
    IF i >= Len(hash) THEN difficulty
    ELSE LET lz   == leading_zeros(hash[i + 1])
             next == IF difficulty <= 248
                     THEN saturating_add(difficulty, lz, U8_MAX)
                     ELSE difficulty
         IN  IF lz < 8 THEN next
             ELSE calculate_difficulty_from(hash, next, i + 1)

calculate_difficulty(hash) == calculate_difficulty_from(hash, 0, 0)

InitDifficulty ==
    /\ InitCold
    /\ ticks = 0
    /\ last = NoOp
    /\ \E h \in ProbeHashes : probe = [hash |-> h, called |-> FALSE, out |-> 0]

call_calculate_difficulty ==
    /\ ~probe.called
    /\ probe' = [probe EXCEPT
            !.called = TRUE,
            !.out = calculate_difficulty(probe.hash)]
    /\ UNCHANGED <<miners, global_round, clock, ticks, rotations, last, history>>

NextDifficulty == call_calculate_difficulty

SpecDifficulty == InitDifficulty /\ [][NextDifficulty]_vars

---------------------------------------------------------------------------
(* The airdrop bridge: leaderboard and allocations (src/main.rs) *)

TOKENS_PER_MILLION_HASHES == 100
MINIMUM_HASHES_FOR_AIRDROP == 100000
TOP_MINERS_TO_AIRDROP == 1000
HASHES_PER_MILLION == 1000000

\* A program account as the bridge reads it: the 32 bytes at offset 8 as
\* the pubkey and the u64 at offset 40 as total_hashes.  For a Miner
\* account these are authority and total_hashes; for the GlobalRound
\* account, which is as long, they are current_challenge and round_number.
MinerStats(pubkey, total_hashes) ==
    [pubkey |-> pubkey, total_hashes |-> total_hashes]

\* The key the bridge reads from the GlobalRound account.
ChallengeKey == 0

\* miners.sort_by(|a, b| b.total_hashes.cmp(&a.total_hashes)): a stable
\* sort, descending.  The accounts with the most hashes come first, in the
\* order the RPC node returned them, then the rest, sorted.
RECURSIVE sort_by_total_hashes(_)
sort_by_total_hashes(accounts) ==
    IF accounts = <<>> THEN <<>>
    ELSE LET totals == {accounts[i].total_hashes : i \in 1..Len(accounts)}
             most   == CHOOSE t \in totals : \A u \in totals : u <= t
             First(account) == account.total_hashes = most
             Rest(account)  == account.total_hashes # most
         IN  SelectSeq(accounts, First)
                \o sort_by_total_hashes(SelectSeq(accounts, Rest))

\* fetch_testnet_leaderboard on the accounts the RPC node returned: sorted
\* and cut to the first TOP_MINERS_TO_AIRDROP.
fetch_testnet_leaderboard(accounts) ==
    LET sorted == sort_by_total_hashes(accounts)
    IN  SubSeq(sorted, 1, Min(Len(sorted), TOP_MINERS_TO_AIRDROP))

\* The tokens with the multiplication before the division.
tokens_for_multiply_first(total_hashes) ==
    (total_hashes * TOKENS_PER_MILLION_HASHES) \div HASHES_PER_MILLION

\* The tokens for a number of hashes (u64 arithmetic, which cannot
\* overflow here).
tokens_for(total_hashes) ==
    (total_hashes \div HASHES_PER_MILLION) * TOKENS_PER_MILLION_HASHES

\* calculate_allocations: the map from pubkey to tokens, as the set of its
\* entries <<pubkey, tokens>> (the pubkeys of the accounts are distinct):
\* one for each leaderboard miner that has the minimum and gets more than
\* 0 tokens.
calculate_allocations(leaderboard) ==
    LET Eligible(miner) ==
            /\ miner.total_hashes >= MINIMUM_HASHES_FOR_AIRDROP
            /\ tokens_for(miner.total_hashes) > 0
        eligible == SelectSeq(leaderboard, Eligible)
    IN  {<<eligible[k].pubkey, tokens_for(eligible[k].total_hashes)>> :
            k \in 1..Len(eligible)}

\* The total_hashes the two miners of the model may have.
HashTotals ==
    {0, MINIMUM_HASHES_FOR_AIRDROP - 1, MINIMUM_HASHES_FOR_AIRDROP,
     HASHES_PER_MILLION - 1, HASHES_PER_MILLION, 2 * HASHES_PER_MILLION - 1,
     10 * HASHES_PER_MILLION}

\* The other miners on the testnet: none, or enough to fill the
\* leaderboard but for one place, or to fill it, each with the same
\* total_hashes.
CrowdSizes == {0, TOP_MINERS_TO_AIRDROP - 1, TOP_MINERS_TO_AIRDROP}
CrowdTotals == {HASHES_PER_MILLION, 2 * HASHES_PER_MILLION}

\* The accounts of the program as the RPC node returns them: the
\* GlobalRound account of a round that was never rotated, the crowd, and
\* the miners of identities 1 and 2.
ProgramAccounts(h1, h2, crowd, crowd_hashes) ==
    <<MinerStats(ChallengeKey, 1)>>
    \o [k \in 1..crowd |-> MinerStats(NumIdentities + k, crowd_hashes)]
    \o <<MinerStats(1, h1), MinerStats(2, h2)>>

InitAirdrop ==
    /\ InitCold
    /\ ticks = 0
    /\ last = NoOp
    /\ \E h1 \in HashTotals, h2 \in {0, 10 * HASHES_PER_MILLION},
          crowd \in CrowdSizes, crowd_hashes \in CrowdTotals :
         probe = [accounts |-> ProgramAccounts(h1, h2, crowd, crowd_hashes),
                  called |-> FALSE, out |-> {}]

run_airdrop ==
    /\ ~probe.called
    /\ probe' = [probe EXCEPT
            !.called = TRUE,
            !.out = calculate_allocations(
                        fetch_testnet_leaderboard(probe.accounts))]
    /\ UNCHANGED <<miners, global_round, clock, ticks, rotations, last, history>>

NextAirdrop == run_airdrop

SpecAirdrop == InitAirdrop /\ [][NextAirdrop]_vars

---------------------------------------------------------------------------
(* Properties *)

\* The number of leading zero bits of a byte, and of a hash: eight for
\* each leading zero byte plus those of the first non-zero byte.
ByteZeros(b) == CHOOSE z \in 0..8 : b < Pow2(8 - z) /\ (z = 8 \/ b >= Pow2(7 - z))

LeadingZeroBits(hash) ==
    IF \A i \in 1..Len(hash) : hash[i] = 0 THEN 8 * Len(hash)
    ELSE LET k == CHOOSE i \in 1..Len(hash) :
                    hash[i] # 0 /\ \A j \in 1..(i - 1) : hash[j] = 0
         IN  8 * (k - 1) + ByteZeros(hash[k])

Submitted == last.op = "submit_proof"
Rejected == Submitted /\ last.result \in Rejections
Accepted == Submitted /\ last.result = Ok

\* C1: a rejected submit_proof (InsufficientDifficulty, TooManySubmissions
\* or DifficultyTooLow) leaves every field of every miner record and of the
\* global round record as it was before the call.
C1_RejectionChangesNothing ==
    [][Rejected' => (miners' = miners /\ global_round' = global_round)]_vars

\* C1 witness: a submission was rejected by the last of the three checks,
\* for a miner with counters to lose.
C1_Witness ==
    /\ Rejected
    /\ last.result = "DifficultyTooLow"
    /\ Val(miners[last.who].total_hashes) > 0

\* What a submission of (nonce, difficulty) by identity a violates in the
\* current state.  HashTooWeak counts the leading zero bits of the hash;
\* HashCheckFails is the answer of the program's check_difficulty.
HashOf(a, nonce) ==
    hash_proof(miners[a].authority, global_round.current_challenge, nonce)
HashTooWeak(a, nonce, difficulty) == LeadingZeroBits(HashOf(a, nonce)) < difficulty
HashCheckFails(a, nonce, difficulty) == ~check_difficulty(HashOf(a, nonce), difficulty)
TooSoon(a) == clock.unix_timestamp - miners[a].last_hash_at < 1
BelowMinimum(difficulty) == difficulty < global_round.min_difficulty

\* The step is a submit_proof by last'.who claiming last'.difficulty, with
\* this nonce.
SubmitStep(nonce) ==
    /\ last'.op = "submit_proof"
    /\ submit_proof(last'.who, nonce, last'.difficulty)

\* C2: submit_proof reports the first failed check in the order hash check,
\* rate limit, round minimum.  A submission that breaks several rules gets
\* the reason of the first: one whose hash has too few leading zero bits
\* and which is too soon or claims less than the minimum gets
\* InsufficientDifficulty, and one which is too soon and claims less than
\* the minimum, with a hash that has the claimed leading zero bits, gets
\* TooManySubmissions.
C2_FirstViolatedCheck ==
    [][\A n \in Nonces : SubmitStep(n) =>
        LET a == last'.who
            d == last'.difficulty
        IN  /\ HashCheckFails(a, n, d) => last'.result = "InsufficientDifficulty"
            /\ (~HashCheckFails(a, n, d) /\ TooSoon(a))
                    => last'.result = "TooManySubmissions"
            /\ (~HashCheckFails(a, n, d) /\ ~TooSoon(a) /\ BelowMinimum(d))
                    => last'.result = "DifficultyTooLow"
            /\ (HashTooWeak(a, n, d) /\ (TooSoon(a) \/ BelowMinimum(d)))
                    => last'.result = "InsufficientDifficulty"
            /\ (~HashTooWeak(a, n, d) /\ TooSoon(a) /\ BelowMinimum(d))
                    => last'.result = "TooManySubmissions"]_vars

\* C2 witness: a submission that violated all three rules at once (weak
\* hash, same second as the last accepted proof, claim below the minimum)
\* was answered InsufficientDifficulty.
C2_Witness ==
    /\ Rejected
    /\ last.result = "InsufficientDifficulty"
    /\ TooSoon(last.who)
    /\ BelowMinimum(last.difficulty)
    /\ last.difficulty > 0

\* C3: for every 32-byte hash and every threshold t in 0..255,
\* check_difficulty(hash, t) is true exactly when the hash has at least t
\* leading zero bits (256 for the all-zero hash).
C3_CheckDifficultyIsLeadingZeros ==
    probe.called =>
        \A t \in Thresholds : probe.out[t] <=> (LeadingZeroBits(probe.hash) >= t)

\* The step is an accepted submit_proof by identity a.
AcceptedStep(a) == Accepted' /\ last'.who = a

\* C4: a submission is accepted exactly when its hash has at least the
\* claimed number of leading zero bits, the claim is at least the round's
\* min_difficulty and it comes at least 1 second after the miner's
\* last_hash_at, whatever min_difficulty rotations have produced.
C4_AcceptedIffThreeConditions ==
    [][\A n \in Nonces : SubmitStep(n) =>
        LET a == last'.who
            d == last'.difficulty
        IN  (last'.result = Ok) <=>
                (~HashTooWeak(a, n, d) /\ ~BelowMinimum(d) /\ ~TooSoon(a))]_vars

\* C5: every miner record has current_streak < 10.
C5_StreakBelowTen ==
    \A a \in Identities :
        miners[a] # NoAccount =>
            Val(miners[a].current_streak) < STREAK_TO_COMPLETE

\* C5 witness: a proof was accepted from a miner whose streak is now 0 and
\* who has completed a round: the acceptance that would have made it 10.
C5_Witness ==
    /\ Accepted
    /\ Val(miners[last.who].current_streak) = 0
    /\ Val(miners[last.who].rounds_completed) > 0

\* C6: an accepted submission by a miner with current_streak = 9 sets the
\* streak to 0 and adds exactly 1 to the miner's rounds_completed and to
\* total_rounds_completed; with current_streak < 9 it adds exactly 1 to the
\* streak and leaves both round counters unchanged.
C6_StreakCompletion ==
    [][\A a \in Identities : AcceptedStep(a) =>
        LET m  == miners[a]
            m2 == miners'[a]
            g  == global_round
            g2 == global_round'
        IN  IF Val(m.current_streak) = STREAK_TO_COMPLETE - 1
            THEN /\ Val(m2.current_streak) = 0
                 /\ Val(m2.rounds_completed) = Val(m.rounds_completed) + 1
                 /\ Val(g2.total_rounds_completed) = Val(g.total_rounds_completed) + 1
            ELSE /\ Val(m2.current_streak) = Val(m.current_streak) + 1
                 /\ m2.rounds_completed = m.rounds_completed
                 /\ g2.total_rounds_completed = g.total_rounds_completed]_vars

\* C6 witness: identity 1, whose streak stood at 9, has had its tenth proof
\* accepted: one more round for it and for the global count.
C6_Witness ==
    /\ Accepted
    /\ last.who = 1
    /\ Val(miners[1].current_streak) = 0
    /\ Val(miners[1].rounds_completed) = Val(global_round.total_rounds_completed)
    /\ Val(miners[1].total_hashes) = STREAK_TO_COMPLETE * Val(miners[1].rounds_completed)

\* C7: every accepted submit_proof adds exactly 1 to the miner's
\* total_hashes, sets its last_hash_at to the current time and adds exactly
\* 1 to total_hashes_submitted.
C7_AcceptedCounts ==
    [][\A a \in Identities : AcceptedStep(a) =>
        /\ Val(miners'[a].total_hashes) = Val(miners[a].total_hashes) + 1
        /\ miners'[a].last_hash_at = clock.unix_timestamp
        /\ Val(global_round'.total_hashes_submitted)
                = Val(global_round.total_hashes_submitted) + 1]_vars

\* C7 witness: an accepted proof that also completed a streak took the
\* round's count past HASHES_FOR_DIFFICULTY_RAISE.
C7_Witness ==
    /\ Accepted
    /\ Val(miners[last.who].current_streak) = 0
    /\ miners[last.who].last_hash_at = clock.unix_timestamp
    /\ Val(global_round.total_hashes_submitted) = HASHES_FOR_DIFFICULTY_RAISE + 1

\* C8: submissions are rate limited to one per second per identity.  A
\* miner's last_hash_at is the time of its creation or of its last accepted
\* proof (creation and acceptance set it to the current time, nothing else
\* changes it), a proof is accepted only 1 second or more after it, and
\* the clock never goes back.
C8_OnePerSecond ==
    [][/\ clock'.unix_timestamp >= clock.unix_timestamp
       /\ \A a \in Identities :
            /\ AcceptedStep(a) =>
                /\ clock.unix_timestamp - miners[a].last_hash_at >= 1
                /\ miners'[a].last_hash_at = clock.unix_timestamp
            /\ (miners[a] = NoAccount /\ miners'[a] # NoAccount) =>
                miners'[a].last_hash_at = clock.unix_timestamp
            /\ (miners[a] # NoAccount /\ ~AcceptedStep(a)) =>
                miners'[a].last_hash_at = miners[a].last_hash_at]_vars

\* C8 witness: the first proof of identity 2 was accepted one second after
\* its record was created.
C8_Witness ==
    /\ Accepted
    /\ last.who = 2
    /\ Val(miners[2].total_hashes) = 1
    /\ ticks = 1

\* C9 as claimed: a submission made less than 1 second after the miner's
\* last accepted proof is answered TooManySubmissions, whether or not its
\* hash meets the claimed difficulty.
C9_TooSoonAlwaysTooManySubmissions ==
    [][(last'.op = "submit_proof" /\ TooSoon(last'.who))
            => last'.result = "TooManySubmissions"]_vars

\* C9 as amended: a submission made less than 1 second after the miner's
\* last accepted proof is rejected whatever its hash: with
\* InsufficientDifficulty when the hash fails the difficulty check for the
\* claimed difficulty, with TooManySubmissions when it passes.
C9_TooSoonRejected ==
    [][\A n \in Nonces : (SubmitStep(n) /\ TooSoon(last'.who)) =>
        last'.result = IF HashCheckFails(last'.who, n, last'.difficulty)
                       THEN "InsufficientDifficulty"
                       ELSE "TooManySubmissions"]_vars

\* C9 witness: a submission that claimed the round's minimum and came in the
\* same second as the miner's last accepted proof was answered
\* TooManySubmissions.
C9_Witness ==
    /\ Rejected
    /\ last.result = "TooManySubmissions"
    /\ TooSoon(last.who)
    /\ last.difficulty = global_round.min_difficulty

\* C10: once the round is initialised min_difficulty is always between 8
\* and 16, and no step decreases it.
C10_MinDifficultyBounds ==
    /\ [](global_round # NoAccount =>
            /\ global_round.min_difficulty >= INITIAL_MIN_DIFFICULTY
            /\ global_round.min_difficulty <= MAX_MIN_DIFFICULTY)
    /\ [][(global_round # NoAccount /\ global_round' # NoAccount) =>
            global_round'.min_difficulty >= global_round.min_difficulty]_vars

\* C10 witness: a rotation has raised min_difficulty above its initial
\* value.
C10_Witness ==
    /\ last.op = "rotate_round"
    /\ last.result = Ok
    /\ global_round.min_difficulty > INITIAL_MIN_DIFFICULTY

\* The step is a successful rotate_round.
RotatedStep == last'.op = "rotate_round" /\ last'.result = Ok

\* C11: a successful rotate_round sets min_difficulty to
\* min(old min_difficulty + 1, 16) when the closed round's
\* total_hashes_submitted is strictly greater than 1_000_000 and leaves it
\* unchanged otherwise (exactly 1_000_000 included); in both cases
\* total_hashes_submitted is 0 afterwards.
C11_RaiseAboveMillion ==
    [][RotatedStep =>
        /\ global_round'.min_difficulty =
              IF Val(global_round.total_hashes_submitted)
                    > HASHES_FOR_DIFFICULTY_RAISE
              THEN Min(global_round.min_difficulty + 1, MAX_MIN_DIFFICULTY)
              ELSE global_round.min_difficulty
        /\ Val(global_round'.total_hashes_submitted) = 0]_vars

\* C11 witness: the round that had counted exactly 1_000_000 proofs was
\* rotated: the minimum stayed at its initial value and the count is 0.
C11_Witness ==
    /\ last.op = "rotate_round"
    /\ last.result = Ok
    /\ miners[1] # NoAccount
    /\ Val(miners[1].total_hashes)
          = HASHES_FOR_DIFFICULTY_RAISE + STREAK_TO_COMPLETE - 1
    /\ global_round.min_difficulty = INITIAL_MIN_DIFFICULTY
    /\ Val(global_round.total_hashes_submitted) = 0

\* C12: round_number is 1 after initialize_global_round and every
\* successful rotate_round adds exactly 1 to it: round_number is always 1
\* plus the number of successful rotations, and submit_proof never changes
\* it.
C12_RoundNumberCountsRotations ==
    /\ [](global_round # NoAccount =>
            Val(global_round.round_number) = 1 + rotations)
    /\ [][/\ (last'.op = "initialize_global_round" /\ last'.result = Ok)
                => Val(global_round'.round_number) = 1
          /\ RotatedStep => Val(global_round'.round_number)
                                = Val(global_round.round_number) + 1
          /\ last'.op = "submit_proof"
                => global_round'.round_number = global_round.round_number]_vars

\* C12 witness: a proof was accepted in round 3, after two rotations.
C12_Witness ==
    /\ Accepted
    /\ rotations = 2
    /\ Val(global_round.round_number) = 3

\* C13 as claimed: rotate_round by a caller other than global_round.admin
\* is rejected with the Unauthorized reason and leaves the round record
\* unchanged.
C13_NonAdminUnauthorized ==
    [][(last'.op = "rotate_round" /\ last'.who # global_round.admin) =>
        /\ last'.result = "Unauthorized"
        /\ global_round' = global_round]_vars

\* C13 as amended: rotate_round by a caller other than global_round.admin
\* is refused by the has_one = admin account constraint (ConstraintHasOne,
\* not a reason of the program's ErrorCode) and leaves the round record
\* unchanged; a rotation succeeds only for the admin stored at
\* initialisation, which never changes.
C13_NonAdminRefused ==
    [][/\ (last'.op = "rotate_round" /\ last'.who # global_round.admin) =>
            /\ last'.result = "ConstraintHasOne"
            /\ global_round' = global_round
       /\ RotatedStep => last'.who = global_round.admin
       /\ global_round # NoAccount =>
            global_round'.admin = global_round.admin]_vars

\* C13 witness: a caller other than the admin tried to rotate a round that
\* had counted more than 1_000_000 proofs, and was refused.
C13_Witness ==
    /\ last.op = "rotate_round"
    /\ last.result = "ConstraintHasOne"
    /\ last.who # global_round.admin
    /\ Val(global_round.total_hashes_submitted) > HASHES_FOR_DIFFICULTY_RAISE

\* C14: rotate_round leaves total_rounds_completed and admin of the round
\* record and every field of every miner record unchanged.
C14_RotationTouchesOnlyRound ==
    [][last'.op = "rotate_round" =>
        /\ miners' = miners
        /\ global_round'.total_rounds_completed
              = global_round.total_rounds_completed
        /\ global_round'.admin = global_round.admin]_vars

\* C14 witness: the round was rotated while a miner was in the middle of a
\* streak, with rounds completed.
C14_Witness ==
    /\ last.op = "rotate_round"
    /\ last.result = Ok
    /\ Val(global_round.total_rounds_completed) > 0
    /\ \E a \in Identities :
         /\ miners[a] # NoAccount
         /\ Val(miners[a].current_streak) > 0

\* C15: submit_proof by one identity never changes current_challenge,
\* round_number, started_at, min_difficulty or admin of the round record,
\* nor the authority of the miner record, nor the miner record of any other
\* identity.
C15_SubmitTouchesOwnRecordAndCounters ==
    [][last'.op = "submit_proof" =>
        /\ global_round'.current_challenge = global_round.current_challenge
        /\ global_round'.round_number = global_round.round_number
        /\ global_round'.started_at = global_round.started_at
        /\ global_round'.min_difficulty = global_round.min_difficulty
        /\ global_round'.admin = global_round.admin
        /\ miners[last'.who] # NoAccount
        /\ miners'[last'.who] # NoAccount
        /\ miners'[last'.who].authority = miners[last'.who].authority
        /\ \A b \in Identities \ {last'.who} : miners'[b] = miners[b]]_vars

\* C15 witness: a proof of identity 2 was accepted while identity 1 has a
\* record with proofs counted.
C15_Witness ==
    /\ Accepted
    /\ last.who = 2
    /\ miners[1] # NoAccount
    /\ Val(miners[1].total_hashes) > 0

\* C16: whatever the order in which the submissions of distinct identities
\* are executed, total_hashes_submitted is the number of submissions
\* accepted, from all identities, since the most recent rotation (since
\* initialisation if there was none): no update is lost or counted twice.
C16_CountIsAcceptedSinceRotation ==
    global_round # NoAccount =>
        /\ Fits(global_round.total_hashes_submitted)
        /\ Val(global_round.total_hashes_submitted) = history.accepted_in_round

\* C16 witness: proofs of both identities were accepted in the same second
\* of the same round.
C16_Witness ==
    /\ Accepted
    /\ history.accepted_in_round = 2
    /\ \A a \in Identities :
         /\ miners[a] # NoAccount
         /\ miners[a].last_hash_at = clock.unix_timestamp
         /\ Val(miners[a].total_hashes) > 0

\* C17: the round record is always entirely of one round.  A successful
\* rotation writes the new challenge, the next round_number, started_at
\* and the zero count in one step, and nothing else changes the challenge
\* or the round_number; an accepted submission has its hash checked against
\* the challenge of the round record it finds and is counted into that
\* same round.
C17_RotationIsOneStep ==
    [][/\ RotatedStep =>
            /\ global_round'.current_challenge = generate_challenge(clock)
            /\ Val(global_round'.round_number)
                  = Val(global_round.round_number) + 1
            /\ global_round'.started_at = clock.unix_timestamp
            /\ Val(global_round'.total_hashes_submitted) = 0
       /\ (global_round # NoAccount /\ ~RotatedStep) =>
            /\ global_round'.current_challenge = global_round.current_challenge
            /\ global_round'.round_number = global_round.round_number
       /\ \A n \in Nonces : (SubmitStep(n) /\ last'.result = Ok) =>
            /\ ~HashCheckFails(last'.who, n, last'.difficulty)
            /\ global_round'.round_number = global_round.round_number
            /\ Val(global_round'.total_hashes_submitted)
                  = Val(global_round.total_hashes_submitted) + 1]_vars

\* C17 witness: the first proof of the round that a rotation opened was
\* accepted.
C17_Witness ==
    /\ Accepted
    /\ rotations = MaxRotations
    /\ history.accepted_in_round = 1
    /\ global_round.started_at = clock.unix_timestamp - 1

\* An accepted proof of identity a would take a counter past its maximum.
CounterExhausted(a) ==
    \/ miners[a].total_hashes = U64_MAX
    \/ miners[a].current_streak = U32_MAX
    \/ global_round.total_hashes_submitted = U64_MAX
    \/ /\ WideGe(checked_add_1(miners[a].current_streak), STREAK_TO_COMPLETE)
       /\ \/ miners[a].rounds_completed = U32_MAX
          \/ global_round.total_rounds_completed = U64_MAX

\* The step is a submit_proof that passes the three checks, or a
\* rotate_round by the admin, and would take a counter past its maximum.
OverflowStep ==
    \/ \E n \in Nonces :
         /\ SubmitStep(n)
         /\ proof_checks(miners[last'.who], global_round,
                         clock.unix_timestamp, n, last'.difficulty) = Ok
         /\ CounterExhausted(last'.who)
    \/ /\ last'.op = "rotate_round"
       /\ last'.who = global_round.admin
       /\ global_round.round_number = U64_MAX

\* C18 as claimed: a submission that passes the checks, or a rotation,
\* that would take a counter past its maximum fails with the
\* ArithmeticOverflow reason and leaves both records unchanged.
C18_OverflowIsArithmeticOverflow ==
    [][OverflowStep =>
        /\ last'.result = "ArithmeticOverflow"
        /\ miners' = miners
        /\ global_round' = global_round]_vars

\* C18 as amended: a submission that passes the checks, or a rotation,
\* that would take a counter past its maximum fails by a panic (the
\* unwrap of the failed checked_add), not with a reason of the program's
\* ErrorCode; no counter wraps around and both records are left unchanged.
C18_OverflowPanics ==
    [][OverflowStep =>
        /\ last'.result = Panic
        /\ miners' = miners
        /\ global_round' = global_round]_vars

\* C18 witness: the tenth proof of a streak passed the checks when
\* total_rounds_completed was at its maximum, and the instruction
\* panicked.
C18_Witness ==
    /\ Submitted
    /\ last.result = Panic
    /\ global_round.total_rounds_completed = U64_MAX
    /\ Val(miners[last.who].current_streak) = STREAK_TO_COMPLETE - 1

\* C19: no step decreases a miner's total_hashes or rounds_completed, nor
\* the round's total_rounds_completed, which a rotation does not reset.
C19_CountersNeverDecrease ==
    [][/\ \A a \in Identities : miners[a] # NoAccount =>
            /\ miners'[a] # NoAccount
            /\ Val(miners'[a].total_hashes) >= Val(miners[a].total_hashes)
            /\ Val(miners'[a].rounds_completed)
                  >= Val(miners[a].rounds_completed)
       /\ global_round # NoAccount =>
            /\ global_round' # NoAccount
            /\ Val(global_round'.total_rounds_completed)
                  >= Val(global_round.total_rounds_completed)
       /\ RotatedStep => global_round'.total_rounds_completed
                            = global_round.total_rounds_completed]_vars

\* C19 witness: after the last rotation a miner completed a streak, which
\* was added to the rounds counted before the rotation.
C19_Witness ==
    /\ Accepted
    /\ rotations = MaxRotations
    /\ Val(miners[last.who].current_streak) = 0
    /\ Val(miners[last.who].rounds_completed) > 1
    /\ Val(global_round.total_rounds_completed) > 1

\* C20: a miner's best_difficulty is the highest difficulty claimed by its
\* accepted submissions, 0 if none was accepted; no step decreases it and
\* a rejected submission does not change it.
C20_BestDifficultyIsHighWaterMark ==
    /\ [](\A a \in Identities : miners[a] # NoAccount =>
            miners[a].best_difficulty = history.max_accepted[a])
    /\ [][/\ \A a \in Identities : miners[a] # NoAccount =>
                miners'[a].best_difficulty >= miners[a].best_difficulty
          /\ Rejected' => miners'[last'.who].best_difficulty
                              = miners[last'.who].best_difficulty]_vars

\* C20 witness: the first accepted proof of identity 2 raised its
\* best_difficulty from 0 to the difficulty it claimed.
C20_Witness ==
    /\ Accepted
    /\ last.who = 2
    /\ Val(miners[2].total_hashes) = 1
    /\ last.difficulty > 0
    /\ miners[2].best_difficulty = last.difficulty

\* The step is an initialize_miner for identity a.
InitializeMinerStep(a) == last'.op = "initialize_miner" /\ last'.who = a

\* C21 as claimed: initialize_miner for an identity that has a record fails
\* with AlreadyExists and leaves the record as it was; a first creation
\* yields all counters 0 and last_hash_at equal to the creation time.
C21_SecondCreationAlreadyExists ==
    [][\A a \in Identities : InitializeMinerStep(a) =>
        IF miners[a] # NoAccount
        THEN /\ last'.result = "AlreadyExists"
             /\ miners'[a] = miners[a]
        ELSE /\ last'.result = Ok
             /\ Val(miners'[a].total_hashes) = 0
             /\ Val(miners'[a].rounds_completed) = 0
             /\ Val(miners'[a].current_streak) = 0
             /\ miners'[a].best_difficulty = 0
             /\ miners'[a].last_hash_at = clock.unix_timestamp]_vars

\* C21 as amended: initialize_miner for an identity that has a record is
\* refused by the `init` account constraint (the system program's
\* AlreadyInUse, not a reason of the program's ErrorCode) and leaves the
\* record as it was; a first creation yields all counters 0 and
\* last_hash_at equal to the creation time; no step removes a record.
C21_CreatedOnce ==
    [][\A a \in Identities :
        /\ InitializeMinerStep(a) =>
            IF miners[a] # NoAccount
            THEN /\ last'.result = "AlreadyInUse"
                 /\ miners'[a] = miners[a]
            ELSE /\ last'.result = Ok
                 /\ miners'[a].authority = a
                 /\ Val(miners'[a].total_hashes) = 0
                 /\ Val(miners'[a].rounds_completed) = 0
                 /\ Val(miners'[a].current_streak) = 0
                 /\ miners'[a].best_difficulty = 0
                 /\ miners'[a].last_hash_at = clock.unix_timestamp
        /\ miners[a] # NoAccount => miners'[a] # NoAccount]_vars

\* C21 witness: a second initialize_miner was refused for an identity whose
\* record has proofs counted and a best difficulty.
C21_Witness ==
    /\ last.op = "initialize_miner"
    /\ last.result = "AlreadyInUse"
    /\ Val(miners[last.who].total_hashes) > 0
    /\ miners[last.who].best_difficulty > 0

\* The tokens the run allocated to a pubkey: those of its entry in the
\* map, nothing when it has none.
Allocation(pubkey) ==
    LET entries == {e \in probe.out : e[1] = pubkey}
    IN  IF entries = {} THEN 0 ELSE (CHOOSE e \in entries : TRUE)[2]

\* floor(total_hashes / 1_000_000) * 100 from the minimum on, else nothing.
RewardUnits(total_hashes) ==
    IF total_hashes >= 100000 THEN (total_hashes \div 1000000) * 100 ELSE 0

\* The number of accounts other than account i that have at least, and
\* the number that have more than, its total_hashes.
AtLeastAsMany(i) ==
    Cardinality({j \in 1..Len(probe.accounts) :
        /\ j # i
        /\ probe.accounts[j].total_hashes >= probe.accounts[i].total_hashes})

MoreHashes(i) ==
    Cardinality({j \in 1..Len(probe.accounts) :
        probe.accounts[j].total_hashes > probe.accounts[i].total_hashes})

\* C22 as stated: every identity is allocated floor(total_hashes /
\* 1_000_000) * 100 reward units when its total_hashes is at least 100_000
\* and nothing below, whatever the other identities have.
C22_AllocationOfOwnHashesOnly ==
    probe.called =>
        \A i \in 1..Len(probe.accounts) :
            Allocation(probe.accounts[i].pubkey)
                = RewardUnits(probe.accounts[i].total_hashes)

\* C22, amended: the allocation is made among the 1000 accounts with the
\* most total_hashes only.  An identity that fewer than 1000 other accounts
\* equal or beat is allocated floor(total_hashes / 1_000_000) * 100 reward
\* units from 100_000 hashes on and nothing below; one that 1000 accounts
\* beat is allocated nothing; any other is allocated that amount or
\* nothing; and at most 1000 identities are allocated anything.
C22_AllocationWithinLeaderboard ==
    probe.called =>
        /\ Cardinality(probe.out) <= TOP_MINERS_TO_AIRDROP
        /\ \A i \in 1..Len(probe.accounts) :
            LET account == probe.accounts[i]
                given   == Allocation(account.pubkey)
            IN  /\ given \in {0, RewardUnits(account.total_hashes)}
                /\ AtLeastAsMany(i) < TOP_MINERS_TO_AIRDROP
                    => given = RewardUnits(account.total_hashes)
                /\ MoreHashes(i) >= TOP_MINERS_TO_AIRDROP => given = 0

\* A run that allocated 100 reward units to 1000 identities and nothing to
\* one with a million hashes or more, the leaderboard being full.
C22_Witness ==
    /\ probe.called
    /\ Cardinality(probe.out) = TOP_MINERS_TO_AIRDROP
    /\ \E i \in 1..Len(probe.accounts) :
        /\ probe.accounts[i].total_hashes >= 1000000
        /\ Allocation(probe.accounts[i].pubkey) = 0
    /\ \E i \in 1..Len(probe.accounts) :
        /\ probe.accounts[i].total_hashes = 1999999
        /\ Allocation(probe.accounts[i].pubkey) = 100

\* C23: the count calculate_difficulty returns is the number of leading
\* zero bits of the hash: the zero bits of the bytes from the left, up to and
\* including the first byte with fewer than 8 of them.  It is 256 for the
\* all-zero hash, 0 when the first bit is 1, 9 for 0x00 0b01111111, and
\* always in 0..256.
C23_CountIsLeadingZeroBits ==
    probe.called =>
        /\ probe.out = LeadingZeroBits(probe.hash)
        /\ probe.out \in 0..(8 * HashLen)
        /\ (\A i \in 1..HashLen : probe.hash[i] = 0) => probe.out = 256
        /\ probe.hash[1] >= 128 => probe.out = 0
        /\ probe.hash[1] = 0 /\ probe.hash[2] = 127 => probe.out = 9

\* C24: in every reachable state every miner record has
\* total_hashes = 10 * rounds_completed + current_streak.
C24_HashesAreRoundsAndStreak ==
    \A a \in Identities : miners[a] # NoAccount =>
        /\ Fits(miners[a].total_hashes)
        /\ Val(miners[a].total_hashes)
              = STREAK_TO_COMPLETE * Val(miners[a].rounds_completed)
                    + Val(miners[a].current_streak)

\* C24 witness: after the last rotation one miner completed a streak and
\* another, created since, is in the middle of its first.
C24_Witness ==
    /\ Accepted
    /\ rotations = MaxRotations
    /\ \E a \in Identities :
        /\ miners[a] # NoAccount
        /\ Val(miners[a].current_streak) = 0
        /\ Val(miners[a].rounds_completed) > 1
    /\ \E b \in Identities :
        /\ miners[b] # NoAccount
        /\ Val(miners[b].current_streak) = 1
        /\ Val(miners[b].rounds_completed) = 0

\* The sum of rounds_completed over the miner records of a set of
\* identities in a map of miner accounts.
RECURSIVE RoundsCompletedBy(_, _)
RoundsCompletedBy(accounts, ids) ==
    IF ids = {} THEN 0
    ELSE LET a == CHOOSE x \in ids : TRUE
         IN  (IF accounts[a] = NoAccount THEN 0
              ELSE Val(accounts[a].rounds_completed))
                + RoundsCompletedBy(accounts, ids \ {a})

\* The step completed a streak: an accepted submission after which the
\* submitter's streak is 0.
CompletedStep ==
    /\ last'.op = "submit_proof"
    /\ last'.result = Ok
    /\ miners'[last'.who] # NoAccount
    /\ Val(miners'[last'.who].current_streak) = 0

\* C25: in every reachable state total_rounds_completed of the round
\* record is the sum of rounds_completed over all miner records (which is 0
\* while there is no round record); a step that completes a streak adds
\* one to both, and no other step (rotation, rejection, creation of a
\* miner or of the round record) changes either.
C25_RoundsCountedOnceGlobally ==
    /\ [](IF global_round = NoAccount
          THEN RoundsCompletedBy(miners, Identities) = 0
          ELSE /\ Fits(global_round.total_rounds_completed)
               /\ Val(global_round.total_rounds_completed)
                     = RoundsCompletedBy(miners, Identities))
    /\ [][LET before == RoundsCompletedBy(miners, Identities)
              after  == RoundsCompletedBy(miners', Identities)
          IN  /\ CompletedStep =>
                    /\ after = before + 1
                    /\ Val(global_round'.total_rounds_completed)
                          = Val(global_round.total_rounds_completed) + 1
              /\ ~CompletedStep =>
                    /\ after = before
                    /\ global_round # NoAccount =>
                          global_round'.total_rounds_completed
                              = global_round.total_rounds_completed
                    /\ global_round = NoAccount /\ global_round' # NoAccount =>
                          Val(global_round'.total_rounds_completed) = 0]_vars

\* C25 witness: a miner has just completed a streak, another has accepted
\* proofs and no round yet, and the round record counts the rounds of the
\* first, more than one.
C25_Witness ==
    /\ Accepted
    /\ global_round # NoAccount
    /\ Val(miners[last.who].current_streak) = 0
    /\ Val(global_round.total_rounds_completed)
          = Val(miners[last.who].rounds_completed)
    /\ Val(global_round.total_rounds_completed) > 1
    /\ \E b \in Identities \ {last.who} :
        /\ miners[b] # NoAccount
        /\ Val(miners[b].total_hashes) > 0
        /\ Val(miners[b].rounds_completed) = 0

====
